---- MODULE Spec2Model ----
(***************************************************************************)
(* GoogleContactsProvider (src/src/inbox/server/util/google_contacts.py):  *)
(* one invocation of the generator get_contacts, stepped through           *)
(* _get_google_client, GetContacts and _parse_contact_result.              *)
(***************************************************************************)
EXTENDS Integers, Sequences, FiniteSets, TLC

\* ------------------------------------------------------------------ bounds
\* longest response (number of entries in GetContacts(...).entry)
MaxEntries == 2
\* how often the caller asks a finished generator for another element
MaxStop == 1

\* ------------------------------------------------------------------ values
\* Python's None; every optional value is either None or a record
None == [none |-> TRUE]
IntV(n) == [int |-> n]
StrV(s) == [str |-> s]
Text(t) == [text |-> t]

AccountIds == {"acct-1", "acct-2"}

\* what the caller may pass ("absent": the argument is left out)
SyncFromTimeArgs == {"absent", "2020-01-01T00:00:00Z"}
MaxResultsArgs == {StrV("absent"), IntV(-1), IntV(0), IntV(1), IntV(5)}

\* an id.text is a string, kept as its characters because posixpath.split
\* cuts it; a timestamp text "...:ss.fffZ" is kept as whole seconds and
\* milliseconds
Chars(s) == [chars |-> s]
IdTexts == { Chars(<<"b", "/", "u">>), Chars(<<"b", "/", "c", "/", "v">>), Chars(<<"w">>) }
Ids == {None, Text(None)} \cup { Text(t) : t \in IdTexts }
Names == {None, [full_name |-> None], [full_name |-> Text("Ann")]}
Stamp(s, ms) == [whole |-> s, frac |-> ms]
Updateds == {None, Text(Stamp(30, 123)), Text(Stamp(31, 0))}

Email(p, a) == [primary |-> p, address |-> a]
EmailLists ==
    { <<>>,
      <<Email(TRUE, "a@x")>>,
      <<Email(FALSE, "c@x")>>,
      <<Email(FALSE, "c@x"), Email(TRUE, "a@x")>>,
      <<Email(TRUE, "a@x"), Email(TRUE, "b@x")>>,
      <<Email(TRUE, "b@x"), Email(FALSE, "c@x"), Email(TRUE, "a@x")>> }

ContactEntry(i, n, u, e) == [id |-> i, name |-> n, updated |-> u, email |-> e]

\* the remote entries: every email list on an otherwise complete entry, and
\* every id, name and update timestamp on an entry with one primary email
Entries ==
    { ContactEntry(Text(Chars(<<"b", "/", "u">>)), [full_name |-> Text("Ann")],
                   Text(Stamp(30, 123)), e) : e \in EmailLists }
    \cup { ContactEntry(i, [full_name |-> Text("Ann")], Text(Stamp(30, 123)),
                        <<Email(TRUE, "a@x")>>) : i \in Ids }
    \cup { ContactEntry(Text(Chars(<<"b", "/", "u">>)), n, Text(Stamp(30, 123)),
                        <<Email(TRUE, "a@x")>>) : n \in Names }
    \cup { ContactEntry(Text(Chars(<<"b", "/", "u">>)), [full_name |-> Text("Ann")], u,
                        <<Email(TRUE, "a@x")>>) : u \in Updateds }

RECURSIVE SeqsUpTo(_, _)
SeqsUpTo(S, n) ==
    IF n = 0 THEN { <<>> }
    ELSE LET shorter == SeqsUpTo(S, n - 1)
         IN  shorter \cup { Append(s, x) : s \in { t \in shorter : Len(t) = n - 1 }, x \in S }

Responses == SeqsUpTo(Entries, MaxEntries)

\* ------------------------------------------------------------------ state
VARIABLES
    account_id,       \* self.account_id
    pc,               \* where the generator (or the helper it called) stands
    given,            \* the arguments as the caller wrote them
    sync_from_time,   \* parameter of get_contacts
    max_results,      \* parameter of get_contacts
    query,            \* the ContactsQuery object
    session_open,     \* a session of session_scope() is held
    google_client,    \* local of get_contacts
    fetch_query,      \* the q= argument GetContacts received
    entries,          \* GetContacts(q=query).entry
    idx,              \* position of the for loop in entries (0: before it)
    frame,            \* locals of the running _parse_contact_result
    yielded,          \* the records the caller has received, in order
    exc,              \* the exception that reached the caller
    log,              \* calls of self.log.error, in order
    auth_calls,       \* calls of _get_google_client
    fetch_calls,      \* calls of GetContacts
    parse_calls,      \* calls of _parse_contact_result
    remote_bad_auth,  \* where the remote system reported bad credentials
    stop_iterations   \* StopIteration answers to a finished generator

vars == << account_id, pc, given, sync_from_time, max_results, query,
           session_open, google_client, fetch_query, entries, idx, frame,
           yielded, exc, log, auth_calls, fetch_calls, parse_calls,
           remote_bad_auth, stop_iterations >>

NoFrame == [email_addresses |-> <<>>, g_id |-> None, name |-> None,
            updated_at |-> None, email_address |-> None]

Init ==
    /\ account_id \in AccountIds
    /\ pc = "idle"
    /\ given = [sync_from_time |-> "absent", max_results |-> StrV("absent")]
    /\ sync_from_time = None
    /\ max_results = 0
    /\ query = None
    /\ session_open = FALSE
    /\ google_client = StrV("unbound")
    /\ fetch_query = None
    /\ entries = <<>>
    /\ idx = 0
    /\ frame = NoFrame
    /\ yielded = <<>>
    /\ exc = "None"
    /\ log = <<>>
    /\ auth_calls = 0
    /\ fetch_calls = 0
    /\ parse_calls = 0
    /\ remote_bad_auth = "none"
    /\ stop_iterations = 0


\* ---------------------------------------------------------------- helpers
\* line 118: def get_contacts(self, sync_from_time=None, max_results=0)
DefaultSyncFromTime(a) == IF a = "absent" THEN None ELSE StrV(a)
DefaultMaxResults(a) == IF a = StrV("absent") THEN 0 ELSE a.int

\* the cap set for every max_results that is not negative
BuildQuery_cap_zero(sft, mr) ==
    [max_results |-> IF mr >= 0 THEN IntV(mr) ELSE None, updated_min |-> sft]

\* lines 135-139: a fresh ContactsQuery has no max_results
BuildQuery(sft, mr) ==
    [max_results |-> IF mr > 0 THEN IntV(mr) ELSE None, updated_min |-> sft]

\* the test of the client left out
ClientIsNone_never(c) == FALSE

\* lines 142-144
ClientIsNone(c) == c = None

\* the filter on email.primary left out
PrimaryEmails_all(google_contact) == google_contact.email

\* lines 84-85: [email for email in google_contact.email if email.primary]
PrimaryEmails(google_contact) ==
    SelectSeq(google_contact.email, LAMBDA email : email.primary)

\* posixpath.split(p): i = p.rfind('/') + 1; tail = p[i:]
RFindSlash(s) ==
    LET at == { j \in 1..Len(s) : s[j] = "/" }
    IN  IF at = {} THEN 0 ELSE CHOOSE j \in at : \A k \in at : k <= j
PosixSplitTail(p) == Chars(SubSeq(p.chars, RFindSlash(p.chars) + 1, Len(p.chars)))

\* dateutil.parser.parse of "...:ss.fffZ": an aware datetime in UTC
DateutilParse(t) == [second |-> t.whole, microsecond |-> t.frac * 1000]

\* lines 111-112: utctimetuple() drops the microseconds, mktime and
\* fromtimestamp carry the broken-down fields through
TruncateSeconds(dt) == [second |-> dt.second, microsecond |-> 0]

\* lines 93-94 raise AttributeError: no id, or an id whose text is None
\* (posixpath.split calls p.rfind)
TryRaises(google_contact) ==
    \/ google_contact.id = None
    \/ google_contact.id.text = None

\* lines 95-96
FullName(google_contact) ==
    IF google_contact.name # None /\ google_contact.name.full_name # None
    THEN StrV(google_contact.name.full_name.text)
    ELSE None

\* lines 114-116
Contact(acct, g_id, name, updated_at, email_address) ==
    [imapaccount_id |-> acct, source |-> "remote", g_id |-> g_id, name |-> name,
     updated_at |-> updated_at, email_address |-> email_address]

LogError(msg, arg, at) == [level |-> "error", msg |-> msg, arg |-> arg, entry |-> at]

Terminal == {"done", "raised", "abandoned"}

\* ---------------------------------------------------------------- actions
\* the caller calls get_contacts: a generator object, no line of the body runs
get_contacts_call ==
    /\ pc = "idle"
    /\ \E sft \in SyncFromTimeArgs, mr \in MaxResultsArgs :
          /\ given' = [sync_from_time |-> sft, max_results |-> mr]
          /\ sync_from_time' = DefaultSyncFromTime(sft)
          /\ max_results' = DefaultMaxResults(mr)
    /\ pc' = "created"
    /\ UNCHANGED << account_id, query, session_open, google_client, fetch_query,
                    entries, idx, frame, yielded, exc, log, auth_calls,
                    fetch_calls, parse_calls, remote_bad_auth, stop_iterations >>

\* the first next(): lines 135-139, up to the call of _get_google_client
build_query ==
    /\ pc = "created"
    /\ query' = BuildQuery(sync_from_time, max_results)
    /\ pc' = "call_auth"
    /\ UNCHANGED << account_id, given, sync_from_time, max_results, session_open,
                    google_client, fetch_query, entries, idx, frame, yielded, exc,
                    log, auth_calls, fetch_calls, parse_calls, remote_bad_auth,
                    stop_iterations >>

\* line 141 calls _get_google_client; line 47 enters session_scope()
session_scope_enter ==
    /\ pc = "call_auth"
    /\ auth_calls' = auth_calls + 1
    /\ session_open' = TRUE
    /\ pc' = "verify"
    /\ UNCHANGED << account_id, given, sync_from_time, max_results, query,
                    google_client, fetch_query, entries, idx, frame, yielded, exc,
                    log, fetch_calls, parse_calls, remote_bad_auth, stop_iterations >>

\* lines 48-64: the try block either builds the client or catches
\* BadAuthentication, logs and picks None; the value waits for the with exit
verify_imap_account ==
    /\ pc = "verify"
    /\ \E outcome \in {"ok", "BadAuthentication"} :
          IF outcome = "ok"
          THEN /\ google_client' = StrV("client")
               /\ UNCHANGED << log, remote_bad_auth >>
          ELSE /\ google_client' = None
               /\ log' = Append(log, LogError("Invalid user credentials given", None, idx))
               /\ remote_bad_auth' = "verify"
    /\ pc' = "with_exit"
    /\ UNCHANGED << account_id, given, sync_from_time, max_results, query,
                    session_open, fetch_query, entries, idx, frame, yielded, exc,
                    auth_calls, fetch_calls, parse_calls, stop_iterations >>

\* what leaving session_scope() does to the session
session_scope_exit == FALSE

\* the client returned with the session still held
get_google_client_return_leak ==
    /\ pc = "with_exit"
    /\ pc' = "check_client"
    /\ UNCHANGED << account_id, given, sync_from_time, max_results, query,
                    session_open, google_client, fetch_query, entries, idx, frame,
                    yielded, exc, log, auth_calls, fetch_calls, parse_calls,
                    remote_bad_auth, stop_iterations >>

\* lines 61 and 64: return leaves the with block of line 47
get_google_client_return ==
    /\ pc = "with_exit"
    /\ session_open' = session_scope_exit
    /\ pc' = "check_client"
    /\ UNCHANGED << account_id, given, sync_from_time, max_results, query,
                    google_client, fetch_query, entries, idx, frame, yielded, exc,
                    log, auth_calls, fetch_calls, parse_calls, remote_bad_auth,
                    stop_iterations >>

\* lines 142-144: without a client the generator returns
check_google_client ==
    /\ pc = "check_client"
    /\ pc' = IF ClientIsNone(google_client) THEN "done" ELSE "fetch"
    /\ UNCHANGED << account_id, given, sync_from_time, max_results, query,
                    session_open, google_client, fetch_query, entries, idx, frame,
                    yielded, exc, log, auth_calls, fetch_calls, parse_calls,
                    remote_bad_auth, stop_iterations >>

\* line 145: google_client.GetContacts(q=query).entry; the request is the one
\* that uses the token, so the remote system may answer BadAuthentication,
\* which no handler of get_contacts catches
GetContacts ==
    /\ pc = "fetch"
    /\ fetch_calls' = fetch_calls + 1
    /\ fetch_query' = query
    /\ \/ \E response \in Responses :
             /\ entries' = response
             /\ pc' = "loop"
             /\ UNCHANGED << exc, remote_bad_auth >>
       \/ /\ exc' = "BadAuthentication"
          /\ remote_bad_auth' = "fetch"
          /\ pc' = "raised"
          /\ UNCHANGED entries
    /\ UNCHANGED << account_id, given, sync_from_time, max_results, query,
                    session_open, google_client, idx, frame, yielded, log,
                    auth_calls, parse_calls, stop_iterations >>

\* the loop stopping one entry early
for_next_drop_last ==
    /\ pc = "loop"
    /\ IF idx + 1 < Len(entries)
       THEN /\ idx' = idx + 1
            /\ parse_calls' = parse_calls + 1
            /\ pc' = "parse_emails"
       ELSE /\ pc' = "done"
            /\ UNCHANGED << idx, parse_calls >>
    /\ UNCHANGED << account_id, given, sync_from_time, max_results, query,
                    session_open, google_client, fetch_query, entries, frame,
                    yielded, exc, log, auth_calls, fetch_calls, remote_bad_auth,
                    stop_iterations >>

\* line 145: the for loop takes the next entry, or ends the generator
for_next ==
    /\ pc = "loop"
    /\ IF idx < Len(entries)
       THEN /\ idx' = idx + 1
            /\ parse_calls' = parse_calls + 1
            /\ pc' = "parse_emails"
       ELSE /\ pc' = "done"
            /\ UNCHANGED << idx, parse_calls >>
    /\ UNCHANGED << account_id, given, sync_from_time, max_results, query,
                    session_open, google_client, fetch_query, entries, frame,
                    yielded, exc, log, auth_calls, fetch_calls, remote_bad_auth,
                    stop_iterations >>

\* lines 84-88
filter_primary_emails ==
    /\ pc = "parse_emails"
    /\ LET email_addresses == PrimaryEmails(entries[idx])
       IN  /\ frame' = [NoFrame EXCEPT !.email_addresses = email_addresses]
           /\ log' = IF Len(email_addresses) > 1
                     THEN Append(log, LogError("Should not have more than one email per entry!",
                                               [email_addresses |-> email_addresses], idx))
                     ELSE log
    /\ pc' = "parse_try"
    /\ UNCHANGED << account_id, given, sync_from_time, max_results, query,
                    session_open, google_client, fetch_query, entries, idx,
                    yielded, exc, auth_calls, fetch_calls, parse_calls,
                    remote_bad_auth, stop_iterations >>

\* lines 89-103: the try block, and the handler's log call
parse_try ==
    /\ pc = "parse_try"
    /\ LET google_contact == entries[idx]
       IN  IF TryRaises(google_contact)
           THEN /\ log' = Append(log, LogError("Something is wrong with contact",
                                               google_contact, idx))
                /\ pc' = "reraise"
                /\ UNCHANGED frame
           ELSE /\ frame' =
                     [frame EXCEPT
                        !.g_id = PosixSplitTail(google_contact.id.text),
                        !.name = FullName(google_contact),
                        !.updated_at = IF google_contact.updated # None
                                       THEN DateutilParse(google_contact.updated.text)
                                       ELSE None,
                        !.email_address = IF Len(frame.email_addresses) > 0
                                          THEN StrV(frame.email_addresses[1].address)
                                          ELSE None]
                /\ pc' = "truncate"
                /\ UNCHANGED log
    /\ UNCHANGED << account_id, given, sync_from_time, max_results, query,
                    session_open, google_client, fetch_query, entries, idx,
                    yielded, exc, auth_calls, fetch_calls, parse_calls,
                    remote_bad_auth, stop_iterations >>

\* line 104: raise e, through get_contacts to the caller
parse_reraise ==
    /\ pc = "reraise"
    /\ exc' = "AttributeError"
    /\ pc' = "raised"
    /\ UNCHANGED << account_id, given, sync_from_time, max_results, query,
                    session_open, google_client, fetch_query, entries, idx, frame,
                    yielded, log, auth_calls, fetch_calls, parse_calls,
                    remote_bad_auth, stop_iterations >>

\* lines 111-112, outside the try block: updated_at.utctimetuple() on None
\* raises AttributeError, which nothing logs
truncate_updated_at ==
    /\ pc = "truncate"
    /\ IF frame.updated_at = None
       THEN /\ exc' = "AttributeError"
            /\ pc' = "raised"
            /\ UNCHANGED frame
       ELSE /\ frame' = [frame EXCEPT !.updated_at = TruncateSeconds(frame.updated_at)]
            /\ pc' = "return_contact"
            /\ UNCHANGED exc
    /\ UNCHANGED << account_id, given, sync_from_time, max_results, query,
                    session_open, google_client, fetch_query, entries, idx,
                    yielded, log, auth_calls, fetch_calls, parse_calls,
                    remote_bad_auth, stop_iterations >>

\* lines 114-116 and the yield of line 146: the caller receives the record
yield_contact ==
    /\ pc = "return_contact"
    /\ yielded' = Append(yielded, Contact(account_id, frame.g_id, frame.name,
                                          frame.updated_at, frame.email_address))
    /\ frame' = NoFrame
    /\ pc' = "suspended"
    /\ UNCHANGED << account_id, given, sync_from_time, max_results, query,
                    session_open, google_client, fetch_query, entries, idx, exc,
                    log, auth_calls, fetch_calls, parse_calls, remote_bad_auth,
                    stop_iterations >>

\* a sequence that runs its body from the top on every request
caller_next_restart ==
    /\ pc = "suspended"
    /\ pc' = "created"
    /\ UNCHANGED << account_id, given, sync_from_time, max_results, query,
                    session_open, google_client, fetch_query, entries, idx, frame,
                    yielded, exc, log, auth_calls, fetch_calls, parse_calls,
                    remote_bad_auth, stop_iterations >>

\* the caller asks for the next element: the generator resumes after the yield
caller_next ==
    /\ pc = "suspended"
    /\ pc' = "loop"
    /\ UNCHANGED << account_id, given, sync_from_time, max_results, query,
                    session_open, google_client, fetch_query, entries, idx, frame,
                    yielded, exc, log, auth_calls, fetch_calls, parse_calls,
                    remote_bad_auth, stop_iterations >>

\* the caller drops the generator, before its first element or at a yield
caller_abandon ==
    /\ pc \in {"created", "suspended"}
    /\ pc' = "abandoned"
    /\ UNCHANGED << account_id, given, sync_from_time, max_results, query,
                    session_open, google_client, fetch_query, entries, idx, frame,
                    yielded, exc, log, auth_calls, fetch_calls, parse_calls,
                    remote_bad_auth, stop_iterations >>

\* next() on a generator that returned, raised or was closed: StopIteration,
\* no line of the body runs
caller_next_after_end ==
    /\ pc \in Terminal
    /\ stop_iterations < MaxStop
    /\ stop_iterations' = stop_iterations + 1
    /\ UNCHANGED << account_id, pc, given, sync_from_time, max_results, query,
                    session_open, google_client, fetch_query, entries, idx, frame,
                    yielded, exc, log, auth_calls, fetch_calls, parse_calls,
                    remote_bad_auth >>

Next ==
    \/ get_contacts_call
    \/ build_query
    \/ session_scope_enter
    \/ verify_imap_account
    \/ get_google_client_return
    \/ check_google_client
    \/ GetContacts
    \/ for_next
    \/ filter_primary_emails
    \/ parse_try
    \/ parse_reraise
    \/ truncate_updated_at
    \/ yield_contact
    \/ caller_next
    \/ caller_abandon
    \/ caller_next_after_end

Spec == Init /\ [][Next]_vars

\* ----------------------------------------------------------------- claims
\* what the claims say of an entry, stated without the parser's steps
LacksId(e) == e.id = None \/ e.id.text = None
Parses(e) == ~LacksId(e) /\ e.updated # None
PrimaryAt(e) == { j \in 1..Len(e.email) : e.email[j].primary }
ExpectedEmailAddress(e) ==
    IF PrimaryAt(e) = {} THEN None
    ELSE LET j == CHOOSE j \in PrimaryAt(e) : \A k \in PrimaryAt(e) : j <= k
         IN  StrV(e.email[j].address)
ExpectedGId(e) ==
    LET s == e.id.text.chars
        n == CHOOSE n \in 0..Len(s) :
                 /\ \A j \in (n + 1)..Len(s) : s[j] # "/"
                 /\ n = 0 \/ s[n] = "/"
    IN  Chars(SubSeq(s, n + 1, Len(s)))
ExpectedName(e) ==
    IF e.name = None THEN None
    ELSE IF e.name.full_name = None THEN None
    ELSE StrV(e.name.full_name.text)
ExpectedContact(e) ==
    [imapaccount_id |-> account_id, source |-> "remote", g_id |-> ExpectedGId(e),
     name |-> ExpectedName(e),
     updated_at |-> [second |-> e.updated.text.whole, microsecond |-> 0],
     email_address |-> ExpectedEmailAddress(e)]
AnomalyLogs(i) ==
    { n \in 1..Len(log) :
        /\ log[n].entry = i
        /\ log[n].msg = "Should not have more than one email per entry!" }
LastLogIsEntry(i) ==
    /\ Len(log) > 0
    /\ log[Len(log)].msg = "Something is wrong with contact"
    /\ log[Len(log)].entry = i
    /\ log[Len(log)].arg = entries[i]

\* C1: when the verification inside _get_google_client reports
\* BadAuthentication, the invocation yields no record, no exception reaches
\* the caller, exactly one error is logged and GetContacts is never called;
\* the generator can only go on to return.
C1_BadCredentialsSkipAccount ==
    remote_bad_auth = "verify" =>
        /\ yielded = <<>>
        /\ exc = "None"
        /\ fetch_calls = 0
        /\ parse_calls = 0
        /\ Len(log) = 1
        /\ log[1].msg = "Invalid user credentials given"
        /\ pc \in {"with_exit", "check_client", "done"}

C1_Witness ==
    /\ remote_bad_auth = "verify"
    /\ pc = "done"
    /\ stop_iterations = 1

\* C2: whenever the remote system reports invalid credentials at any step of
\* an invocation (verification or the GetContacts fetch), no exception
\* reaches the caller and the result is an empty sequence.
C2_AuthErrorsAbsorbed ==
    remote_bad_auth # "none" =>
        /\ exc = "None"
        /\ pc # "raised"
        /\ yielded = <<>>

\* C3: if entry k is the first of the response without an identifier, then
\* entries 1..k-1 are yielded, iteration step k raises AttributeError after
\* the raw entry k was logged, and nothing is yielded for k or later.
C3_FirstMissingIdRaisesAtK ==
    \A k \in 1..Len(entries) :
        (LacksId(entries[k]) /\ \A j \in 1..(k - 1) : ~LacksId(entries[j])) =>
            /\ Len(yielded) <= k - 1
            /\ pc # "done"
            /\ pc = "raised" =>
                   /\ exc = "AttributeError"
                   /\ idx = k
                   /\ Len(yielded) = k - 1
                   /\ LastLogIsEntry(k)

\* C4: an entry with a well-formed identifier and no update timestamp is
\* parsed without a failure into a record whose updated_at is None.
C4_MissingTimestampGivesNone ==
    \A i \in 1..Len(entries) :
        (~LacksId(entries[i]) /\ entries[i].updated = None) =>
            /\ ~(pc = "raised" /\ idx = i)
            /\ Len(yielded) >= i => yielded[i].updated_at = None

\* C5: for an otherwise well-formed entry the record's email_address is None
\* with no primary email and the address of the first primary email in the
\* entry's order otherwise (never an email that is not flagged primary); two
\* or more primary emails log exactly one anomaly and raise no failure.
C5_FirstPrimaryEmail ==
    \A i \in 1..Len(entries) :
        Parses(entries[i]) =>
            /\ ~(pc = "raised" /\ idx = i)
            /\ i <= Len(yielded) =>
                   /\ yielded[i].email_address = ExpectedEmailAddress(entries[i])
                   /\ Cardinality(AnomalyLogs(i)) =
                          (IF Cardinality(PrimaryAt(entries[i])) >= 2 THEN 1 ELSE 0)

C5_Witness ==
    /\ pc = "suspended"
    /\ idx = 2
    /\ Len(yielded) = 2
    /\ Cardinality(PrimaryAt(entries[1])) = 0
    /\ Len(entries[1].email) = 1
    /\ Cardinality(PrimaryAt(entries[2])) = 2
    /\ Len(entries[2].email) = 3
    /\ yielded[2].email_address = StrV("b@x")
    /\ Cardinality(AnomalyLogs(2)) = 1

\* C6: an exception leaving _parse_contact_result for a missing structural
\* field (identifier, update timestamp) is preceded by an error log of that
\* raw entry, and it ends the iteration of get_contacts.
C6_ParseFailureLogged ==
    (pc = "raised" /\ exc = "AttributeError") =>
        /\ LastLogIsEntry(idx)
        /\ Len(yielded) = idx - 1
        /\ parse_calls = idx

\* C7: when authentication succeeds and every entry of the response parses,
\* the i-th yielded record is the parse of the i-th entry, and a finished
\* iteration has yielded one record per entry.
C7_OneRecordPerEntryInOrder ==
    (remote_bad_auth = "none" /\ \A i \in 1..Len(entries) : Parses(entries[i])) =>
        /\ pc # "raised"
        /\ Len(yielded) <= Len(entries)
        /\ \A i \in 1..Len(yielded) : yielded[i] = ExpectedContact(entries[i])
        /\ pc = "done" => Len(yielded) = Len(entries)

C7_Witness ==
    /\ pc = "done"
    /\ fetch_calls = 1
    /\ Len(entries) = 2
    /\ Len(yielded) = 2
    /\ yielded[1] # yielded[2]
    /\ yielded[1].g_id = Chars(<<"v">>)
    /\ yielded[2].updated_at = [second |-> 31, microsecond |-> 0]

\* C8: the query GetContacts receives has updated_min equal to the caller's
\* sync_from_time (None when not given), max_results equal to the caller's
\* max_results when that is positive, and no max_results when it is 0 or
\* not given.
C8_QueryCarriesParameters ==
    fetch_calls > 0 =>
        /\ fetch_query # None
        /\ fetch_query.updated_min =
               (IF given.sync_from_time = "absent" THEN None
                ELSE StrV(given.sync_from_time))
        /\ (given.max_results = StrV("absent") \/ given.max_results = IntV(0)) =>
               fetch_query.max_results = None
        /\ (given.max_results # StrV("absent") /\ given.max_results.int > 0) =>
               fetch_query.max_results = given.max_results

C8_Witness ==
    /\ fetch_calls = 1
    /\ given.max_results = IntV(5)
    /\ given.sync_from_time = "2020-01-01T00:00:00Z"
    /\ fetch_query = [max_results |-> IntV(5),
                      updated_min |-> StrV("2020-01-01T00:00:00Z")]

\* C9: a session is held only inside _get_google_client: none is open while
\* GetContacts runs or an entry is parsed or yielded, and it is released when
\* authentication returns, with a client or without one.
C9_SessionOnlyInsideAuth ==
    session_open => pc \in {"verify", "with_exit"}

C9_Witness ==
    /\ pc = "parse_try"
    /\ auth_calls = 1
    /\ ~session_open

NothingAfterEnd ==
    pc \in Terminal =>
        /\ pc' = pc
        /\ auth_calls' = auth_calls
        /\ fetch_calls' = fetch_calls
        /\ parse_calls' = parse_calls
        /\ yielded' = yielded

\* C10: nothing is authenticated or fetched before the first request for an
\* element; one sequence authenticates at most once and fetches at most once,
\* and fetches only after an authentication that returned a client; once the
\* sequence has returned, raised or been abandoned, no authentication, fetch
\* or parse follows.
C10_LazySinglePass ==
    /\ [](pc \in {"idle", "created"} => auth_calls = 0 /\ fetch_calls = 0)
    /\ [](auth_calls <= 1 /\ fetch_calls <= 1)
    /\ [](fetch_calls = 1 => auth_calls = 1 /\ google_client = StrV("client"))
    /\ [][NothingAfterEnd]_vars

C10_Witness ==
    /\ pc = "abandoned"
    /\ fetch_calls = 1
    /\ Len(yielded) = 1
    /\ Len(entries) = 2
    /\ stop_iterations = 1

====
